---- MODULE Spec2Model ----
(***************************************************************************)
(* The Erc721 contract of src/erc721/lib.rs as a state machine.  The state *)
(* is the contract's storage; every action is one message of the contract, *)
(* executed as the Rust method executes on the storage struct: a write     *)
(* made before a later `?` returns an error stays written.  Nothing in     *)
(* lib.rs undoes a write; a rollback by the chain that hosts the contract  *)
(* is not part of the modelled code.  u32 arithmetic is modelled for both  *)
(* builds: with overflow checks (a panic) and without (wrap-around).       *)
(***************************************************************************)
EXTENDS Integers, Sequences, FiniteSets, TLC

\* ------------------------------------------------------------- bounds
\* mint is offered while token_id <= MaxTokenId
MaxTokenId == 2
\* number of messages sent to the contract in one behaviour
MaxCalls == 5

\* ------------------------------------------------------------- values
\* AccountId::from([0x0; 32])
ZeroAccount == "zero"
Accounts == {ZeroAccount, "alice", "bob"}
\* Option<AccountId>::None
NoAccount == "none"
TokenIds == 1 .. MaxTokenId

\* A u32 is held as <<high half, low half>> in base 2^16, so that u32::MAX
\* and the wrap-around of a release build are representable.
Base == 65536
U32(n) == <<n \div Base, n % Base>>
U32Max == <<Base - 1, Base - 1>>
\* c + 1 and c - 1 modulo 2^32
WrappingAdd1(c) == IF c[2] < Base - 1 THEN <<c[1], c[2] + 1>>
                   ELSE <<(c[1] + 1) % Base, 0>>
WrappingSub1(c) == IF c[2] > 0 THEN <<c[1], c[2] - 1>>
                   ELSE <<(c[1] - 1) % Base, Base - 1>>
\* Option<u32>
None == <<>>
Some(c) == <<c>>

VARIABLES
    token_owner,          \* Mapping<TokenId, AccountId>
    token_approvals,      \* Mapping<TokenId, AccountId>
    owned_tokens_count,   \* Mapping<AccountId, u32>
    operator_approvals,   \* Mapping<(AccountId, AccountId), ()>
    token_id,             \* next id to mint
    overflow_checks,      \* the build: TRUE panics on u32 overflow, FALSE wraps
    ret,                  \* the message that just ran: name, caller, arguments, result
    events,               \* the events that message emitted
    pre,                  \* the storage as it was when that message started
    ncalls                \* messages sent so far

vars == <<token_owner, token_approvals, owned_tokens_count, operator_approvals,
          token_id, overflow_checks, ret, events, pre, ncalls>>

\* the storage struct
Storage == [token_owner |-> token_owner,
            token_approvals |-> token_approvals,
            owned_tokens_count |-> owned_tokens_count,
            operator_approvals |-> operator_approvals,
            token_id |-> token_id]

\* what an internal function hands back: storage, Result, emitted events
Out(s, res, ev) == [s |-> s, res |-> res, ev |-> ev]

\* ------------------------------------------------------------- queries
balance_of_or_zero(s, of) ==
    IF s.owned_tokens_count[of] = None THEN U32(0) ELSE s.owned_tokens_count[of][1]

balance_of(s, owner) == balance_of_or_zero(s, owner)

owner_of(s, id) == s.token_owner[id]

get_approved(s, id) == s.token_approvals[id]

approved_for_all(s, owner, operator) == <<owner, operator>> \in s.operator_approvals

is_approved_for_all(s, owner, operator) == approved_for_all(s, owner, operator)

exists(s, id) == s.token_owner[id] # NoAccount

\* from != zero && (from == owner || from == approved || approved_for_all(owner, from))
approved_or_owner(s, from, id) ==
    /\ from # ZeroAccount
    /\ \/ from = owner_of(s, id)
       \/ from = s.token_approvals[id]
       \/ approved_for_all(s, owner_of(s, id), from)

\* ------------------------------------------------------------- internals
\* the zero-address check is missing
add_token_to_NoZeroCheck(s, to, id, oc) ==
    IF s.token_owner[id] # NoAccount THEN Out(s, "TokenExists", <<>>)
    ELSE IF s.owned_tokens_count[to] # None /\ s.owned_tokens_count[to][1] = U32Max /\ oc
         THEN Out(s, "Panic", <<>>)
    ELSE LET count == IF s.owned_tokens_count[to] = None THEN U32(1)
                      ELSE WrappingAdd1(s.owned_tokens_count[to][1])
         IN Out([s EXCEPT !.owned_tokens_count[to] = Some(count),
                          !.token_owner[id] = to], "Ok", <<>>)

\* a first receipt records the owner and creates no balance entry
add_token_to_NoFirstEntry(s, to, id, oc) ==
    IF s.token_owner[id] # NoAccount THEN Out(s, "TokenExists", <<>>)
    ELSE IF to = ZeroAccount THEN Out(s, "NotAllowed", <<>>)
    ELSE IF s.owned_tokens_count[to] = None
         THEN Out([s EXCEPT !.token_owner[id] = to], "Ok", <<>>)
    ELSE IF s.owned_tokens_count[to][1] = U32Max /\ oc THEN Out(s, "Panic", <<>>)
    ELSE Out([s EXCEPT !.owned_tokens_count[to] =
                            Some(WrappingAdd1(s.owned_tokens_count[to][1])),
                       !.token_owner[id] = to], "Ok", <<>>)

add_token_to(s, to, id, oc) ==
    IF s.token_owner[id] # NoAccount THEN Out(s, "TokenExists", <<>>)
    ELSE IF to = ZeroAccount THEN Out(s, "NotAllowed", <<>>)
    ELSE IF s.owned_tokens_count[to] # None /\ s.owned_tokens_count[to][1] = U32Max /\ oc
         THEN Out(s, "Panic", <<>>)
    ELSE LET count == IF s.owned_tokens_count[to] = None THEN U32(1)
                      ELSE WrappingAdd1(s.owned_tokens_count[to][1])
         IN Out([s EXCEPT !.owned_tokens_count[to] = Some(count),
                          !.token_owner[id] = to], "Ok", <<>>)

clear_approval(s, id) == [s EXCEPT !.token_approvals[id] = NoAccount]

\* the owner record is removed and the balance is left as it was
remove_token_from_NoDecrement(s, from, id, oc) ==
    IF s.token_owner[id] = NoAccount THEN Out(s, "TokenNotFound", <<>>)
    ELSE IF s.owned_tokens_count[from] = None THEN Out(s, "CannotFetchValue", <<>>)
    ELSE IF s.owned_tokens_count[from][1] = U32(0) /\ oc THEN Out(s, "Panic", <<>>)
    ELSE Out([s EXCEPT !.token_owner[id] = NoAccount], "Ok", <<>>)

remove_token_from(s, from, id, oc) ==
    IF s.token_owner[id] = NoAccount THEN Out(s, "TokenNotFound", <<>>)
    ELSE IF s.owned_tokens_count[from] = None THEN Out(s, "CannotFetchValue", <<>>)
    ELSE IF s.owned_tokens_count[from][1] = U32(0) /\ oc THEN Out(s, "Panic", <<>>)
    ELSE Out([s EXCEPT !.owned_tokens_count[from] =
                            Some(WrappingSub1(s.owned_tokens_count[from][1])),
                       !.token_owner[id] = NoAccount], "Ok", <<>>)

\* the authorization is asked of the `from` argument instead of the caller
transfer_token_from_AuthFrom(s, caller, from, to, id, oc) ==
    IF ~exists(s, id) THEN Out(s, "TokenNotFound", <<>>)
    ELSE IF ~approved_or_owner(s, from, id) THEN Out(s, "NotApproved", <<>>)
    ELSE LET s1 == clear_approval(s, id)
             r2 == remove_token_from(s1, from, id, oc)
             r3 == add_token_to(r2.s, to, id, oc)
         IN IF r2.res # "Ok" THEN r2
            ELSE IF r3.res # "Ok" THEN r3
            ELSE Out(r3.s, "Ok",
                     <<[type |-> "Transfer", from |-> from, to |-> to, id |-> id]>>)

transfer_token_from(s, caller, from, to, id, oc) ==
    IF ~exists(s, id) THEN Out(s, "TokenNotFound", <<>>)
    ELSE IF ~approved_or_owner(s, caller, id) THEN Out(s, "NotApproved", <<>>)
    ELSE LET s1 == clear_approval(s, id)
             r2 == remove_token_from(s1, from, id, oc)
             r3 == add_token_to(r2.s, to, id, oc)
         IN IF r2.res # "Ok" THEN r2
            ELSE IF r3.res # "Ok" THEN r3
            ELSE Out(r3.s, "Ok",
                     <<[type |-> "Transfer", from |-> from, to |-> to, id |-> id]>>)

\* the contains check before the insert is dropped: a new approval overwrites
approve_for_Overwrites(s, caller, to, id) ==
    LET owner == owner_of(s, id) IN
    IF owner # caller /\ owner = NoAccount THEN Out(s, "Panic", <<>>)
    ELSE IF ~(owner = caller \/ approved_for_all(s, owner, caller))
         THEN Out(s, "NotAllowed", <<>>)
    ELSE IF to = ZeroAccount THEN Out(s, "NotAllowed", <<>>)
    ELSE Out([s EXCEPT !.token_approvals[id] = to], "Ok",
             <<[type |-> "Approval", from |-> caller, to |-> to, id |-> id]>>)

\* the caller is checked with approved_or_owner, so the approved account passes
approve_for_ApprovedMayApprove(s, caller, to, id) ==
    LET owner == owner_of(s, id) IN
    IF owner # caller /\ owner = NoAccount THEN Out(s, "Panic", <<>>)
    ELSE IF ~approved_or_owner(s, caller, id) THEN Out(s, "NotAllowed", <<>>)
    ELSE IF to = ZeroAccount THEN Out(s, "NotAllowed", <<>>)
    ELSE IF s.token_approvals[id] # NoAccount THEN Out(s, "CannotInsert", <<>>)
    ELSE Out([s EXCEPT !.token_approvals[id] = to], "Ok",
             <<[type |-> "Approval", from |-> caller, to |-> to, id |-> id]>>)

approve_for(s, caller, to, id) ==
    LET owner == owner_of(s, id) IN
    IF owner # caller /\ owner = NoAccount THEN Out(s, "Panic", <<>>)
    ELSE IF ~(owner = caller \/ approved_for_all(s, owner, caller))
         THEN Out(s, "NotAllowed", <<>>)
    ELSE IF to = ZeroAccount THEN Out(s, "NotAllowed", <<>>)
    ELSE IF s.token_approvals[id] # NoAccount THEN Out(s, "CannotInsert", <<>>)
    ELSE Out([s EXCEPT !.token_approvals[id] = to], "Ok",
             <<[type |-> "Approval", from |-> caller, to |-> to, id |-> id]>>)

\* the event is emitted only when the operator table changes
approve_for_all_EventOnChange(s, caller, to, approved) ==
    IF to = caller THEN Out(s, "NotAllowed", <<>>)
    ELSE Out([s EXCEPT !.operator_approvals =
                  IF approved THEN @ \cup {<<caller, to>>} ELSE @ \ {<<caller, to>>}],
             "Ok",
             IF approved = (<<caller, to>> \in s.operator_approvals) THEN <<>>
             ELSE <<[type |-> "ApprovalForAll", owner |-> caller, operator |-> to,
                     approved |-> approved]>>)

\* the to == caller check is missing
approve_for_all_NoSelfCheck(s, caller, to, approved) ==
    Out([s EXCEPT !.operator_approvals =
             IF approved THEN @ \cup {<<caller, to>>} ELSE @ \ {<<caller, to>>}],
        "Ok",
        <<[type |-> "ApprovalForAll", owner |-> caller, operator |-> to,
           approved |-> approved]>>)

\* approved == false leaves the record in place
approve_for_all_NoRevoke(s, caller, to, approved) ==
    IF to = caller THEN Out(s, "NotAllowed", <<>>)
    ELSE Out([s EXCEPT !.operator_approvals =
                  IF approved THEN @ \cup {<<caller, to>>} ELSE @],
             "Ok",
             <<[type |-> "ApprovalForAll", owner |-> caller, operator |-> to,
                approved |-> approved]>>)

approve_for_all(s, caller, to, approved) ==
    IF to = caller THEN Out(s, "NotAllowed", <<>>)
    ELSE Out([s EXCEPT !.operator_approvals =
                  IF approved THEN @ \cup {<<caller, to>>} ELSE @ \ {<<caller, to>>}],
             "Ok",
             <<[type |-> "ApprovalForAll", owner |-> caller, operator |-> to,
                approved |-> approved]>>)

\* ------------------------------------------------------------- messages
\* the token_id += 1 after the event is forgotten
mint_KeepsCounter(s, caller, oc) ==
    LET id == s.token_id
        r == add_token_to(s, caller, id, oc)
    IN IF r.res # "Ok" THEN r
       ELSE Out(r.s, "Ok",
                <<[type |-> "Transfer", from |-> ZeroAccount, to |-> caller, id |-> id]>>)

mint(s, caller, oc) ==
    LET id == s.token_id
        r == add_token_to(s, caller, id, oc)
    IN IF r.res # "Ok" THEN r
       ELSE Out([r.s EXCEPT !.token_id = id + 1], "Ok",
                <<[type |-> "Transfer", from |-> ZeroAccount, to |-> caller, id |-> id]>>)

\* burn asks approved_or_owner instead of owner != caller
burn_AnyAuthorized(s, caller, id, oc) ==
    LET owner == s.token_owner[id] IN
    IF owner = NoAccount THEN Out(s, "TokenNotFound", <<>>)
    ELSE IF ~approved_or_owner(s, caller, id) THEN Out(s, "NotOwner", <<>>)
    ELSE IF s.owned_tokens_count[caller] = None THEN Out(s, "CannotFetchValue", <<>>)
    ELSE IF s.owned_tokens_count[caller][1] = U32(0) /\ oc THEN Out(s, "Panic", <<>>)
    ELSE Out([s EXCEPT !.owned_tokens_count[caller] =
                            Some(WrappingSub1(s.owned_tokens_count[caller][1])),
                       !.token_owner[id] = NoAccount], "Ok",
             <<[type |-> "Transfer", from |-> caller, to |-> ZeroAccount, id |-> id]>>)

\* a missing token is compared with the caller like any other owner
burn_MissingIsNotOwner(s, caller, id, oc) ==
    LET owner == s.token_owner[id] IN
    IF owner # caller THEN Out(s, "NotOwner", <<>>)
    ELSE IF s.owned_tokens_count[caller] = None THEN Out(s, "CannotFetchValue", <<>>)
    ELSE IF s.owned_tokens_count[caller][1] = U32(0) /\ oc THEN Out(s, "Panic", <<>>)
    ELSE Out([s EXCEPT !.owned_tokens_count[caller] =
                            Some(WrappingSub1(s.owned_tokens_count[caller][1])),
                       !.token_owner[id] = NoAccount], "Ok",
             <<[type |-> "Transfer", from |-> caller, to |-> ZeroAccount, id |-> id]>>)

burn(s, caller, id, oc) ==
    LET owner == s.token_owner[id] IN
    IF owner = NoAccount THEN Out(s, "TokenNotFound", <<>>)
    ELSE IF owner # caller THEN Out(s, "NotOwner", <<>>)
    ELSE IF s.owned_tokens_count[caller] = None THEN Out(s, "CannotFetchValue", <<>>)
    ELSE IF s.owned_tokens_count[caller][1] = U32(0) /\ oc THEN Out(s, "Panic", <<>>)
    ELSE Out([s EXCEPT !.owned_tokens_count[caller] =
                            Some(WrappingSub1(s.owned_tokens_count[caller][1])),
                       !.token_owner[id] = NoAccount], "Ok",
             <<[type |-> "Transfer", from |-> caller, to |-> ZeroAccount, id |-> id]>>)

transfer(s, caller, destinaion, id, oc) ==
    transfer_token_from(s, caller, caller, destinaion, id, oc)

transfer_from(s, caller, from, to, id, oc) ==
    transfer_token_from(s, caller, from, to, id, oc)

approve(s, caller, to, id) == approve_for(s, caller, to, id)

set_approval_for_all(s, caller, to, approved) == approve_for_all(s, caller, to, approved)

\* ------------------------------------------------------------- the machine
Call(op, caller, from, to, id, approved) ==
    [op |-> op, caller |-> caller, from |-> from, to |-> to, id |-> id,
     approved |-> approved]

\* no message is running: the host is waiting for the next one
Idle == [call |-> Call("none", ZeroAccount, ZeroAccount, ZeroAccount, 0, FALSE),
         result |-> "none"]

\* the message ran to its return (or panic): the storage it left, its result
Commit(call, r) ==
    /\ token_owner' = r.s.token_owner
    /\ token_approvals' = r.s.token_approvals
    /\ owned_tokens_count' = r.s.owned_tokens_count
    /\ operator_approvals' = r.s.operator_approvals
    /\ token_id' = r.s.token_id
    /\ ret' = [call |-> call, result |-> r.res]
    /\ events' = r.ev
    /\ pre' = Storage
    /\ ncalls' = ncalls + 1
    /\ UNCHANGED overflow_checks

\* the host takes the next message; the bound ends the behaviour
Running == ret = Idle /\ ncalls < MaxCalls

new ==
    /\ token_owner = [i \in TokenIds |-> NoAccount]
    /\ token_approvals = [i \in TokenIds |-> NoAccount]
    /\ owned_tokens_count = [a \in Accounts |-> None]
    /\ operator_approvals = {}
    /\ token_id = 1

Init ==
    /\ new
    /\ overflow_checks \in BOOLEAN
    /\ ret = Idle
    /\ events = <<>>
    /\ pre = Storage
    /\ ncalls = 0

Mint ==
    /\ Running
    /\ token_id <= MaxTokenId
    /\ \E caller \in Accounts :
          Commit(Call("mint", caller, ZeroAccount, ZeroAccount, 0, FALSE),
                 mint(Storage, caller, overflow_checks))

Burn ==
    /\ Running
    /\ \E caller \in Accounts, id \in TokenIds :
          Commit(Call("burn", caller, ZeroAccount, ZeroAccount, id, FALSE),
                 burn(Storage, caller, id, overflow_checks))

Transfer ==
    /\ Running
    /\ \E caller \in Accounts, to \in Accounts, id \in TokenIds :
          Commit(Call("transfer", caller, caller, to, id, FALSE),
                 transfer(Storage, caller, to, id, overflow_checks))

TransferFrom ==
    /\ Running
    /\ \E caller \in Accounts, from \in Accounts, to \in Accounts, id \in TokenIds :
          Commit(Call("transfer_from", caller, from, to, id, FALSE),
                 transfer_from(Storage, caller, from, to, id, overflow_checks))

Approve ==
    /\ Running
    /\ \E caller \in Accounts, to \in Accounts, id \in TokenIds :
          Commit(Call("approve", caller, ZeroAccount, to, id, FALSE),
                 approve(Storage, caller, to, id))

SetApprovalForAll ==
    /\ Running
    /\ \E caller \in Accounts, to \in Accounts, approved \in BOOLEAN :
          Commit(Call("set_approval_for_all", caller, ZeroAccount, to, 0, approved),
                 set_approval_for_all(Storage, caller, to, approved))

\* The result and the events go to the caller; only the storage outlives a
\* message.  A message that panicked is never returned from.
Return ==
    /\ ret # Idle
    /\ ret.result # "Panic"
    /\ ret' = Idle
    /\ events' = <<>>
    /\ pre' = Storage
    /\ UNCHANGED <<token_owner, token_approvals, owned_tokens_count,
                   operator_approvals, token_id, overflow_checks, ncalls>>

Next ==
    \/ Mint
    \/ Burn
    \/ Transfer
    \/ TransferFrom
    \/ Approve
    \/ SetApprovalForAll
    \/ Return

Spec == Init /\ [][Next]_vars

\* ------------------------------------------------------------- properties
\* the error values of enum Error
Errors == {"NotOwner", "NotApproved", "TokenExists", "TokenNotFound",
           "CannotInsert", "CannotFetchValue", "NotAllowed"}

\* the token ids whose recorded owner is a
OwnedBy(s, a) == {i \in TokenIds : s.token_owner[i] = a}

\* the four tables of s and t agree
SameTables(s, t) ==
    /\ s.token_owner = t.token_owner
    /\ s.token_approvals = t.token_approvals
    /\ s.owned_tokens_count = t.owned_tokens_count
    /\ s.operator_approvals = t.operator_approvals

\* C1: in every reachable state, for every account A, balance_of(A) equals
\* the number of token ids whose owner_of is A.
C1_BalanceEqualsOwnedCount ==
    \A a \in Accounts :
        balance_of(Storage, a) = U32(Cardinality(OwnedBy(Storage, a)))

\* C2: in every reachable state, if get_approved(id) is present then
\* owner_of(id) is present.
C2_ApprovalImpliesOwner ==
    \A id \in TokenIds :
        get_approved(Storage, id) # NoAccount => owner_of(Storage, id) # NoAccount

\* C3: a message that returns an error leaves the owner, approval, operator
\* and balance tables and the id counter exactly as they were before the call.
C3_ErrorLeavesStorage ==
    ret.result \in Errors => Storage = pre

\* C4: on an extant token, transfer and transfer_from by an authorized caller
\* and approve by the owner, with to = the null account, return NotAllowed and
\* leave the owner, the approval record, the balances and the operator table
\* unchanged.
C4_NullTargetRejected ==
    LET c == ret.call IN
    (/\ c.op \in {"transfer", "transfer_from", "approve"}
     /\ c.to = ZeroAccount
     /\ pre.token_owner[c.id] # NoAccount
     /\ IF c.op = "approve"
        THEN c.caller = pre.token_owner[c.id]
        ELSE /\ c.caller # ZeroAccount
             /\ \/ c.caller = pre.token_owner[c.id]
                \/ c.caller = pre.token_approvals[c.id]
                \/ <<pre.token_owner[c.id], c.caller>> \in pre.operator_approvals)
    => (ret.result = "NotAllowed" /\ SameTables(Storage, pre))

\* the caller of the last message was, when it was called, the non-null owner
\* of id, its single-approved account, or an operator of its owner
CallerAuthorized(id) ==
    /\ ret.call.caller # ZeroAccount
    /\ \/ ret.call.caller = pre.token_owner[id]
       \/ ret.call.caller = pre.token_approvals[id]
       \/ <<pre.token_owner[id], ret.call.caller>> \in pre.operator_approvals

\* C5: a transfer or transfer_from on an extant token changes the owner of id
\* only if the caller is non-null and is the owner, the single-approved account
\* or an operator of the owner; for any other caller, whatever `from` is, the
\* call returns NotApproved and the owner of id is unchanged.
C5_OnlyAuthorizedCallerMovesToken ==
    LET c == ret.call IN
    (c.op \in {"transfer", "transfer_from"} /\ pre.token_owner[c.id] # NoAccount)
    => /\ token_owner[c.id] # pre.token_owner[c.id] => CallerAuthorized(c.id)
       /\ ~CallerAuthorized(c.id)
            => (ret.result = "NotApproved" /\ token_owner[c.id] = pre.token_owner[c.id])

\* an unauthorized caller named the true owner as `from` and was refused
C5_Witness ==
    /\ ret.call.op = "transfer_from"
    /\ pre.token_owner[ret.call.id] = "alice"
    /\ ret.call.caller = "bob"
    /\ ret.call.from = "alice"
    /\ ~CallerAuthorized(ret.call.id)
    /\ ret.result = "NotApproved"

\* C6: if id is owned by A and the caller C is the single-approved account of
\* id or an operator of A, then transfer_from(A, T, id) by C with T non-null
\* succeeds; afterwards owner_of(id) = T, get_approved(id) is absent,
\* balance_of(A) is one less and balance_of(T) one more than before.
\* (Taken with C non-null and T different from A.)
C6_DelegateTransferFromSucceeds ==
    LET c == ret.call IN
    (/\ c.op = "transfer_from"
     /\ pre.token_owner[c.id] # NoAccount
     /\ c.from = pre.token_owner[c.id]
     /\ c.caller \notin {ZeroAccount, c.from}
     /\ \/ c.caller = pre.token_approvals[c.id]
        \/ <<c.from, c.caller>> \in pre.operator_approvals
     /\ c.to \notin {ZeroAccount, c.from})
    => /\ ret.result = "Ok"
       /\ owner_of(Storage, c.id) = c.to
       /\ get_approved(Storage, c.id) = NoAccount
       /\ balance_of(pre, c.from) # U32(0)
       /\ balance_of(Storage, c.from) = WrappingSub1(balance_of(pre, c.from))
       /\ balance_of(pre, c.to) # U32Max
       /\ balance_of(Storage, c.to) = WrappingAdd1(balance_of(pre, c.to))

\* C7: burn(id) by the current owner of an extant token succeeds: the stored
\* balance is at least 1 before the call, it is lowered by exactly 1, and
\* owner_of(id) is absent afterwards.
C7_OwnerBurnSucceeds ==
    LET c == ret.call IN
    (/\ c.op = "burn"
     /\ pre.token_owner[c.id] # NoAccount
     /\ c.caller = pre.token_owner[c.id])
    => /\ ret.result = "Ok"
       /\ balance_of(pre, c.caller) # U32(0)
       /\ balance_of(Storage, c.caller) = WrappingSub1(balance_of(pre, c.caller))
       /\ owner_of(Storage, c.id) = NoAccount

\* C8: burn(id) on an extant token by any account other than its owner (the
\* single-approved account and an operator of the owner included) returns
\* NotOwner and leaves the four tables and the id counter unchanged.
C8_NonOwnerBurnRejected ==
    LET c == ret.call IN
    (/\ c.op = "burn"
     /\ pre.token_owner[c.id] # NoAccount
     /\ c.caller # pre.token_owner[c.id])
    => (ret.result = "NotOwner" /\ Storage = pre)

\* the single-approved account, also an operator of the owner, tried to burn
C8_Witness ==
    /\ ret.call.op = "burn"
    /\ pre.token_owner[ret.call.id] \notin {NoAccount, ret.call.caller}
    /\ ret.call.caller = pre.token_approvals[ret.call.id]
    /\ <<pre.token_owner[ret.call.id], ret.call.caller>> \in pre.operator_approvals
    /\ ret.result = "NotOwner"

C11_IdsNeverReused ==
    /\ token_id = 1
    /\ [][/\ token_id' >= token_id
          /\ (ret'.call.op = "mint" /\ ret'.result = "Ok")
               => /\ token_owner[token_id] = NoAccount
                  /\ token_owner'[token_id] = ret'.call.caller
                  /\ token_id' = token_id + 1
          /\ \A i \in TokenIds :
               (i < token_id /\ token_owner[i] = NoAccount)
                 => token_owner'[i] = NoAccount]_vars

\* token 1 was burned, and the mint after it was given id 2
C11_Witness ==
    /\ ret.call.op = "mint"
    /\ ret.result = "Ok"
    /\ pre.token_id = 2
    /\ pre.token_owner[1] = NoAccount
    /\ token_owner[1] = NoAccount
    /\ token_owner[2] = ret.call.caller
    /\ token_id = 3

\* C12: when an approval record already exists for an extant token, approve
\* by the owner or by an operator of the owner, with any non-null `to`,
\* returns CannotInsert, the record keeps its value and no Approval event is
\* emitted.
C12_SecondApproveCannotInsert ==
    LET c == ret.call IN
    (/\ c.op = "approve"
     /\ pre.token_owner[c.id] # NoAccount
     /\ pre.token_approvals[c.id] # NoAccount
     /\ c.to # ZeroAccount
     /\ \/ c.caller = pre.token_owner[c.id]
        \/ <<pre.token_owner[c.id], c.caller>> \in pre.operator_approvals)
    => /\ ret.result = "CannotInsert"
       /\ token_approvals[c.id] = pre.token_approvals[c.id]
       /\ \A k \in 1 .. Len(events) : events[k].type # "Approval"

\* the owner, having approved bob, tried to approve another account
C12_Witness ==
    /\ ret.call.op = "approve"
    /\ pre.token_owner[ret.call.id] = "alice"
    /\ ret.call.caller = "alice"
    /\ pre.token_approvals[ret.call.id] = "bob"
    /\ ret.call.to = "alice"
    /\ ret.result = "CannotInsert"
    /\ token_approvals[ret.call.id] = "bob"

\* C13: approve on an extant token by an account that is neither its owner
\* nor an operator of the owner (the single-approved account included)
\* returns NotAllowed and creates or changes no approval record.
C13_UnauthorizedApproveRejected ==
    LET c == ret.call IN
    (/\ c.op = "approve"
     /\ pre.token_owner[c.id] # NoAccount
     /\ c.caller # pre.token_owner[c.id]
     /\ <<pre.token_owner[c.id], c.caller>> \notin pre.operator_approvals)
    => /\ ret.result = "NotAllowed"
       /\ token_approvals = pre.token_approvals

\* the single-approved account, no operator, tried to approve
C13_Witness ==
    /\ ret.call.op = "approve"
    /\ pre.token_owner[ret.call.id] = "alice"
    /\ ret.call.caller = "bob"
    /\ pre.token_approvals[ret.call.id] = "bob"
    /\ <<"alice", "bob">> \notin pre.operator_approvals
    /\ ret.call.to # ZeroAccount
    /\ ret.result = "NotAllowed"

\* C14: in every reachable state the null account is neither the recorded
\* owner nor the single-approved account of any token.
C14_NullNeverOwnerNorApproved ==
    \A id \in TokenIds :
        /\ owner_of(Storage, id) # ZeroAccount
        /\ get_approved(Storage, id) # ZeroAccount

\* the null account itself called mint and was refused
C14_Witness ==
    /\ ret.call.op = "mint"
    /\ ret.call.caller = ZeroAccount
    /\ ret.result = "NotAllowed"
    /\ \A id \in TokenIds : owner_of(Storage, id) # ZeroAccount

\* C15: set_approval_for_all(op, true) with op different from the caller
\* succeeds and emits one ApprovalForAll event, whether or not the pair is
\* already in the operator table; when it is (the second of two such calls
\* in a row), the operator table is left as the first call left it.
C15_SetApprovalForAllIdempotent ==
    LET c == ret.call IN
    (c.op = "set_approval_for_all" /\ c.approved /\ c.to # c.caller)
    => /\ ret.result = "Ok"
       /\ events = <<[type |-> "ApprovalForAll", owner |-> c.caller,
                      operator |-> c.to, approved |-> TRUE]>>
       /\ operator_approvals = pre.operator_approvals \cup {<<c.caller, c.to>>}
       /\ <<c.caller, c.to>> \in pre.operator_approvals
            => operator_approvals = pre.operator_approvals

\* the second call of a behaviour repeats the first: only
\* set_approval_for_all(bob, true) by alice can have put the pair there
C15_Witness ==
    /\ ncalls = 2
    /\ ret.call.op = "set_approval_for_all"
    /\ ret.call.caller = "alice"
    /\ ret.call.to = "bob"
    /\ ret.call.approved
    /\ pre.operator_approvals = {<<"alice", "bob">>}
    /\ ret.result = "Ok"
    /\ Len(events) = 1
    /\ operator_approvals = {<<"alice", "bob">>}

\* C16: set_approval_for_all(operator, approved) with operator equal to the
\* caller returns NotAllowed for either value of approved, emits no event and
\* changes no state; the operator table never contains a pair (A, A).
C16_SelfOperatorRejected ==
    /\ (ret.call.op = "set_approval_for_all" /\ ret.call.to = ret.call.caller)
         => (ret.result = "NotAllowed" /\ events = <<>> /\ Storage = pre)
    /\ \A a \in Accounts : <<a, a>> \notin operator_approvals

\* alice named herself as operator and was refused
C16_Witness ==
    /\ ret.call.op = "set_approval_for_all"
    /\ ret.call.caller = "alice"
    /\ ret.call.to = "alice"
    /\ ret.call.approved
    /\ ret.result = "NotAllowed"

\* C17: every Transfer event of a successful transfer or transfer_from of id
\* carries as `from` the account that owned id immediately before the call
\* and as `to` the account that owns id immediately after.
C17_TransferEventNamesPreviousOwner ==
    (ret.call.op \in {"transfer", "transfer_from"} /\ ret.result = "Ok")
    => /\ Len(events) >= 1
       /\ \A k \in 1 .. Len(events) :
            events[k].type = "Transfer"
              => /\ events[k].from = pre.token_owner[ret.call.id]
                 /\ events[k].to = token_owner[ret.call.id]

\* C18: set_approval_for_all(op, false) by A (op different from A) returns Ok
\* whether or not the pair was present, and afterwards
\* is_approved_for_all(A, op) is false; a pair absent from the operator table
\* enters it only by A's own set_approval_for_all(op, true); and while it is
\* absent, a transfer or transfer_from by op on a token owned by A for which
\* op is not the single-approved account returns NotApproved.
C18_RevocationTakesEffect ==
    /\ [](LET c == ret.call IN
          /\ (c.op = "set_approval_for_all" /\ ~c.approved /\ c.to # c.caller)
               => (ret.result = "Ok" /\ ~is_approved_for_all(Storage, c.caller, c.to))
          /\ (/\ c.op \in {"transfer", "transfer_from"}
              /\ pre.token_owner[c.id] # NoAccount
              /\ c.caller # pre.token_owner[c.id]
              /\ c.caller # pre.token_approvals[c.id]
              /\ ~is_approved_for_all(pre, pre.token_owner[c.id], c.caller))
               => (ret.result = "NotApproved" /\ token_owner = pre.token_owner))
    /\ [][\A a \in Accounts, op \in Accounts :
            (<<a, op>> \notin operator_approvals /\ <<a, op>> \in operator_approvals')
              => /\ ret'.call.op = "set_approval_for_all"
                 /\ ret'.call.caller = a
                 /\ ret'.call.to = op
                 /\ ret'.call.approved]_vars

\* alice, owner of token 1, revoked bob, who was her operator
C18_Witness ==
    /\ ret.call.op = "set_approval_for_all"
    /\ ret.call.caller = "alice"
    /\ ret.call.to = "bob"
    /\ ~ret.call.approved
    /\ <<"alice", "bob">> \in pre.operator_approvals
    /\ token_owner[1] = "alice"
    /\ ret.result = "Ok"
    /\ ~is_approved_for_all(Storage, "alice", "bob")

\* C19: every account that owns a token has an entry in the balance table
\* (an entry, once created, is never deleted), and burn never returns
\* CannotFetchValue.
C19_OwnersHaveBalanceEntry ==
    /\ [](/\ \A id \in TokenIds :
               token_owner[id] # NoAccount => owned_tokens_count[token_owner[id]] # None
          /\ ret.call.op = "burn" => ret.result # "CannotFetchValue")
    /\ [][\A a \in Accounts :
            owned_tokens_count[a] # None => owned_tokens_count'[a] # None]_vars

\* the owner burned its only token: the entry stays, holding 0
C19_Witness ==
    /\ ret.call.op = "burn"
    /\ ret.result = "Ok"
    /\ pre.owned_tokens_count[ret.call.caller] = Some(U32(1))
    /\ owned_tokens_count[ret.call.caller] = Some(U32(0))

\* a + b modulo 2^32
AddU32(a, b) ==
    <<(a[1] + b[1] + ((a[2] + b[2]) \div Base)) % Base, (a[2] + b[2]) % Base>>

\* the u32 sum of the stored balances of all accounts
SumOfBalances(s) ==
    LET sum[A \in SUBSET Accounts] ==
            IF A = {} THEN U32(0)
            ELSE LET a == CHOOSE x \in A : TRUE
                 IN AddU32(balance_of(s, a), sum[A \ {a}])
    IN sum[Accounts]

\* the extant tokens
Extant(s) == {i \in TokenIds : s.token_owner[i] # NoAccount}

====
